---- MODULE Spec2Model ----
(***************************************************************************)
(* Model of the Monte Carlo routine `clausing` of src/src/main.rs.         *)
(*                                                                         *)
(* Numbers.  The routine computes in f64.  The model computes in fixed     *)
(* point: a position, radius, length or travel parameter x is the integer  *)
(* x * S, a direction cosine c is the integer c * D, and every operation   *)
(* rounds to the nearest grid value.  NaN is the one non-number: it is     *)
(* what a square root of a negative value and 0.0 / 0.0 give, every        *)
(* operation hands it on, and every comparison with it is false.           *)
(* A division by 0.0 of a non-zero value is an infinity in f64.  The only  *)
(* divisor that can be 0.0 is r_accel; r_bottom is then infinite, and with *)
(* the directions drawn here (vy # 0) the first time-to-radius formula     *)
(* computes inf - inf under its square root, so z is NaN from the launch   *)
(* on, and clausing_factor is inf * 0.  The model gives NaN at once.       *)
(*                                                                         *)
(* Random numbers.  Each call of rng.random() is a choice from a small     *)
(* set of values; a branch that does not run draws nothing.                *)
(***************************************************************************)
EXTENDS Integers, Sequences, FiniteSets

\* ------------------------------------------------------------------ bounds

\* The largest npart a run is started with.
MaxPart == 2

\* The bounce cutoff.  The source compares icount with the literal 1000
\* (main.rs:181); the model keeps the comparison and scales the number, so
\* that a particle can reach the cutoff within the state space.
Cutoff == 2

\* ------------------------------------------------------- number grids, NaN

\* Positions, radii, lengths, travel parameters: x is held as x * S.
S == 10

\* Direction cosines: c is held as c * D.  With D = 3 the grid carries exact
\* unit vectors (1,2,2)/3, (2,1,2)/3, (2,2,1)/3 and their sign changes.
D == 3

NaN == 0 - 1000000

IsNum(x) == x # NaN

\* f64 comparisons: false as soon as one side is NaN.
Lt(a, b) == \E v \in {a}, w \in {b} : IsNum(v) /\ IsNum(w) /\ v < w
Le(a, b) == \E v \in {a}, w \in {b} : IsNum(v) /\ IsNum(w) /\ v <= w
Gt(a, b) == \E v \in {a}, w \in {b} : IsNum(v) /\ IsNum(w) /\ v > w
Ge(a, b) == \E v \in {a}, w \in {b} : IsNum(v) /\ IsNum(w) /\ v >= w

\* An f64 operation on the values of a (and b): NaN as soon as one is NaN.
Lift1(F(_), a) ==
    CHOOSE r \in { IF IsNum(v) THEN F(v) ELSE NaN : v \in {a} } : TRUE
Lift2(F(_, _), a, b) ==
    CHOOSE r \in { IF IsNum(v) /\ IsNum(w) THEN F(v, w) ELSE NaN :
                   v \in {a}, w \in {b} } : TRUE

Abs(a) == IF a < 0 THEN 0 - a ELSE a

\* a / b rounded to the nearest integer, halves away from zero (b # 0).
RoundDiv(a, b) ==
    LET q == (2 * Abs(a) + Abs(b)) \div (2 * Abs(b))
    IN IF (a < 0) = (b < 0) THEN q ELSE 0 - q

\* The integer part of the square root of n >= 0.
SqrtFloor(n) ==
    LET lo == IF n < 100 THEN 0 ELSE IF n < 2500 THEN 10
              ELSE IF n < 10000 THEN 50 ELSE IF n < 40000 THEN 100 ELSE 200
        hi == IF n < 100 THEN 9 ELSE IF n < 2500 THEN 49
              ELSE IF n < 10000 THEN 99 ELSE IF n < 40000 THEN 199 ELSE 46339
    IN CHOOSE k \in lo..hi : k * k <= n /\ n < (k + 1) * (k + 1)

SqrtNum(n) ==
    IF n < 0 THEN NaN
    ELSE LET k == SqrtFloor(n) IN IF n - k * k > k THEN k + 1 ELSE k

\* f64::sqrt on integers: NaN below zero, else the nearest integer root.
Sqrt(n) == Lift1(SqrtNum, n)

Square(v) == v * v
Plus(v, w) == v + w
Minus(v, w) == v - w
Times(v, w) == v * w

\* x.powi(2), a + b, a - b, a * b
Sq(x) == Lift1(Square, x)
Add(a, b) == Lift2(Plus, a, b)
Sub(a, b) == Lift2(Minus, a, b)
Mul(a, b) == Lift2(Times, a, b)

\* a / b as f64 does it, the quotient scaled by k: NaN when an operand is,
\* and when the divisor is 0.0.
Div(a, b, k) ==
    Lift2(LAMBDA v, w : IF w = 0 THEN NaN ELSE RoundDiv(v * k, w), a, b)

\* 1.0 on the position grid.
One == S

\* x with its scale divided by k.
Rescale(x, k) == Lift1(LAMBDA v : RoundDiv(v, k), x)

\* ------------------------------------------------------------------- state

VARIABLES
    params,      \* ClausingParams, lengths on the S grid
    r_bottom, len_bottom, len_top, length,   \* normalized dimensions
    pc,          \* "for" | "while" | "done": position in clausing
    ipart,       \* particles completed (the for loop's index)
    r0, z0, z,   \* emission radius, emission height, pending intersection height
    vx, vy, vz,  \* direction cosines, on the D grid
    icount, notgone,
    iescape, max_count, nlost, vztot, vz0tot,
    results,     \* ClausingResults, as returned once pc = "done"
    longest,     \* history: most iterations executed by a completed particle
    fired,       \* history: what the last iteration's three tests did
    fate         \* history: exit checks that fired for the current particle

vars == <<params, r_bottom, len_bottom, len_top, length, pc, ipart, r0, z0, z, vx, vy, vz, icount, notgone,
          iescape, max_count, nlost, vztot, vz0tot, results, longest, fired, fate>>

\* --------------------------------------------------------------- geometry

\* The example of main() and of the test, a tube narrower at the base than
\* at the top, a base aperture of radius 0, and r_accel = 0.0.
Geometries ==
    { [thick_screen |-> S, thick_accel |-> S \div 2, r_screen |-> 2 * S,
       r_accel |-> S, grid_space |-> (3 * S) \div 10],
      [thick_screen |-> S \div 2, thick_accel |-> S \div 2, r_screen |-> S \div 2,
       r_accel |-> S, grid_space |-> 0],
      [thick_screen |-> S \div 2, thick_accel |-> S \div 2, r_screen |-> 0,
       r_accel |-> S, grid_space |-> 0],
      [thick_screen |-> S, thick_accel |-> S \div 2, r_screen |-> 2 * S,
       r_accel |-> 0, grid_space |-> (3 * S) \div 10] }

ParamSet ==
    { [thick_screen |-> g.thick_screen, thick_accel |-> g.thick_accel,
       r_screen |-> g.r_screen, r_accel |-> g.r_accel,
       grid_space |-> g.grid_space, npart |-> n] :
      g \in Geometries, n \in 0..MaxPart }

\* Calculate normalized dimensions (assumes rTop = 1).
RBottom(q) == Div(q.r_screen, q.r_accel, S)
LenBottom(q) == Div(q.thick_screen + q.grid_space, q.r_accel, S)
LenTop(q) == Div(q.thick_accel, q.r_accel, S)
Length(q) == Add(LenTop(q), LenBottom(q))

\* ------------------------------------------------------ direction sampling

\* sqrt(1 - U) for U uniform in [0, 1): a value in (0, 1].
CosDraws == 1..D

\* 0.99999 on the direction grid: its largest value below 1.
CosMax == D - 1

Clamp(costheta) == IF costheta > CosMax THEN CosMax ELSE costheta

\* sintheta^2 = 1 - costheta^2
SinSq(costheta) == D * D - costheta * costheta

\* The pairs (cos(phi) * sintheta, sin(phi) * sintheta) the grid carries, for
\* the azimuths phi with |cos(phi)| <= sin(phi).  The routine reads
\* sin(phi) * sintheta only squared, so its sign is not drawn.
Azimuths(costheta) ==
    { ab \in ((0 - D)..D) \X (0..D) :
        /\ ab[1] * ab[1] + ab[2] * ab[2] = SinSq(costheta)
        /\ Abs(ab[1]) <= ab[2] }

\* One diffuse emission: costheta after the clamp and the two products.
Emissions ==
    UNION { { [costheta |-> Clamp(c), cs |-> ab[1], sn |-> ab[2]] :
              ab \in Azimuths(Clamp(c)) } : c \in CosDraws }

NoDraw == [costheta |-> 0, cs |-> 0, sn |-> 0]

\* The draws of a branch: none when the branch does not run.
Draw(runs) == IF runs THEN Emissions ELSE {NoDraw}

\* U * S^2 for the launch radius r_bottom * sqrt(U).
UDraws == {0, 64}

\* ------------------------------------------------------ the shared formula

\* t = (vx*r0 + sqrt((vx^2 + vy^2)*rf^2 - (vy*r0)^2)) / (vx^2 + vy^2)
TimeToRadius(vx_, vy_, r0_, rf) ==
    Div(Add(Mul(vx_, r0_),
            Sqrt(Sub(Mul(vx_ * vx_ + vy_ * vy_, Sq(rf)), Sq(Mul(vy_, r0_))))),
        vx_ * vx_ + vy_ * vy_, D)

\* The same with the square root term set to 0 when its argument is negative.
TimeToRadiusOrZero(vx_, vy_, r0_, rf) ==
    LET den == vx_ * vx_ + vy_ * vy_
    IN Lift1(LAMBDA disc :
                IF disc < 0 THEN Div(Mul(vx_, r0_), den, D)
                ELSE Div(Add(Mul(vx_, r0_), Sqrt(disc)), den, D),
             Sub(Mul(den, Sq(rf)), Sq(Mul(vy_, r0_))))

\* z = z0 + vz * t
Advance(z0_, vz_, t) == Add(z0_, Rescale(Mul(vz_, t), D))

\* ------------------------------------------------------ one loop iteration

\* The particle as the loop body reads and writes it.
Particle == [r0 |-> r0, z0 |-> z0, vx |-> vx, vy |-> vy, vz |-> vz, z |-> z]

\* if z < len_bottom
HitsLower(p) == Lt(p.z, len_bottom)

\* Re-emission from the wall of the bottom cylinder.
LowerWall(p, e) ==
    [r0 |-> r_bottom, z0 |-> p.z, vz |-> e.cs, vy |-> e.sn, vx |-> e.costheta,
     z |-> Advance(p.z, e.cs,
                   TimeToRadius(e.costheta, e.sn, r_bottom, r_bottom))]

\* if z >= len_bottom && z0 < len_bottom
Crosses(p) == Ge(p.z, len_bottom) /\ Lt(p.z0, len_bottom)

\* The radius at len_bottom: t = (len_bottom - z0) / vz,
\* r = sqrt((r0 - vx*t)^2 + (vy*t)^2).
PlaneRadius(p) ==
    CHOOSE r \in
      { Rescale(Sqrt(Add(Sq(Sub(Mul(D, p.r0), Mul(p.vx, t))), Sq(Mul(p.vy, t)))), D) :
        t \in {Div(Sub(len_bottom, p.z0), p.vz, D)} } : TRUE

\* The crossing particle meets the upstream side of the accel grid.
Blocked(p) == Crosses(p) /\ ~Le(PlaneRadius(p), One)

\* The body of the crossing test: on upward, or re-emitted downward.
Boundary(p, e) ==
    CHOOSE q \in
      { IF Le(r, One)
        THEN [p EXCEPT !.z = Advance(p.z0, p.vz,
                                     TimeToRadius(p.vx, p.vy, p.r0, One))]
        ELSE [r0 |-> r, z0 |-> len_bottom,
              vx |-> e.cs, vy |-> e.sn, vz |-> 0 - e.costheta,
              z |-> Advance(len_bottom, 0 - e.costheta,
                            TimeToRadius(e.cs, e.sn, r, r_bottom))] :
        r \in {PlaneRadius(p)} } : TRUE

\* Mutant of HitsUpper: both comparisons strict.
HitsUpper_Strict(p) == Gt(p.z, len_bottom) /\ Lt(p.z, length)

\* if z >= len_bottom && z <= length
HitsUpper(p) == Ge(p.z, len_bottom) /\ Le(p.z, length)

\* Re-emission from the wall of the upper cylinder, and the height at which
\* the particle meets the bottom cylinder when it heads below len_bottom.
UpperWall(p, e) ==
    CHOOSE n \in
      { IF Lt(q.z, len_bottom)
        THEN [q EXCEPT !.z = Advance(q.z0, q.vz,
                                TimeToRadiusOrZero(q.vx, q.vy, One, r_bottom))]
        ELSE q :
        q \in { [r0 |-> One, z0 |-> p.z, vz |-> e.cs, vy |-> e.sn,
                 vx |-> e.costheta,
                 z |-> Advance(p.z, e.cs,
                               TimeToRadius(e.costheta, e.sn, One, One))] } } : TRUE

\* The three tests in the order of the loop body, each on what the earlier
\* ones left.
AfterLower(p, e) == IF HitsLower(p) THEN LowerWall(p, e) ELSE p
AfterBoundary(p, e) == IF Crosses(p) THEN Boundary(p, e) ELSE p
AfterUpper(p, e) == IF HitsUpper(p) THEN UpperWall(p, e) ELSE p

\* Mutant of GoneDown: the base plane taken one radius too low.
GoneDown_BelowBase(zz) == Lt(zz, 0 - One)

\* Mutant of Escaped: the height compared with the stage boundary.
Escaped_AboveBoundary(zz) == Gt(zz, len_bottom)

\* Mutant of CutOff: the cutoff applied one iteration later.
CutOff_OneLater(n) == n > Cutoff + 1

\* if z < 0.0
GoneDown(zz) == Lt(zz, 0)

\* if z > length
Escaped(zz) == Gt(zz, length)

\* if icount > 1000, with the literal scaled down to Cutoff
CutOff(n) == n > Cutoff

\* Mutant of StillGoing: an escaped particle is not taken out of the loop.
StillGoing_AfterEscape(down, up, cut) == ~(down \/ cut)

\* notgone after the three exit checks
StillGoing(down, up, cut) == ~(down \/ up \/ cut)

\* Mutant of NextCount: the increment left out.
NextCount_Same(n) == n

\* icount += 1
NextCount(n) == n + 1

\* Mutant of NewMax: the smaller of the two kept.
NewMax_Smaller(n, m) == IF n < m THEN n ELSE m

\* if icount > max_count { max_count = icount }
NewMax(n, m) == IF n > m THEN n ELSE m

\* --------------------------------------------------------------- actions

NoResults == [clausing_factor |-> NaN, max_count |-> 0, nlost |-> 0, den_cor |-> NaN]

NoneFired == [lower |-> FALSE, crosses |-> FALSE, blocked |-> FALSE, upper |-> FALSE]

Init ==
    /\ params \in ParamSet
    /\ r_bottom = RBottom(params)
    /\ len_bottom = LenBottom(params)
    /\ len_top = LenTop(params)
    /\ length = Length(params)
    /\ pc = "for"
    /\ ipart = 0
    /\ r0 = 0 /\ z0 = 0 /\ z = 0
    /\ vx = 0 /\ vy = 0 /\ vz = 0
    /\ icount = 0 /\ notgone = FALSE
    /\ iescape = 0 /\ max_count = 0 /\ nlost = 0
    /\ vztot = 0 /\ vz0tot = 0
    /\ results = NoResults
    /\ longest = 0
    /\ fired = NoneFired
    /\ fate = {}

\* One pass of the for loop down to the while: launch from the bottom.
Launch ==
    /\ pc = "for"
    /\ ipart < params.npart
    /\ \E u \in UDraws, e \in Emissions :
          LET r == Rescale(Mul(r_bottom, Sqrt(u)), S)
          IN /\ r0' = r
             /\ z0' = 0
             /\ vx' = e.cs
             /\ vy' = e.sn
             /\ vz' = e.costheta
             /\ z' = Advance(0, e.costheta, TimeToRadius(e.cs, e.sn, r, r_bottom))
             /\ vz0tot' = vz0tot + e.costheta
    /\ icount' = 0
    /\ notgone' = TRUE
    /\ pc' = "while"
    /\ fired' = NoneFired
    /\ fate' = {}
    /\ UNCHANGED <<params, r_bottom, len_bottom, len_top, length, ipart, iescape, max_count, nlost, vztot, results, longest>>

\* One iteration of the while loop.
Iterate ==
    /\ pc = "while"
    /\ notgone
    /\ icount' = NextCount(icount)
    /\ \E p0 \in {Particle} :
        \E e1 \in Draw(HitsLower(p0)) :
        \E p1 \in {AfterLower(p0, e1)} :
        \E blocked \in {Blocked(p1)} :
        \E e2 \in Draw(blocked) :
        \E p2 \in {AfterBoundary(p1, e2)} :
        \E e3 \in Draw(HitsUpper(p2)) :
        \E p3 \in {AfterUpper(p2, e3)} :
        LET down == GoneDown(p3.z)
            up == Escaped(p3.z)
            cut == CutOff(NextCount(icount))
        IN /\ r0' = p3.r0 /\ z0' = p3.z0 /\ z' = p3.z
           /\ vx' = p3.vx /\ vy' = p3.vy /\ vz' = p3.vz
           /\ iescape' = IF up THEN iescape + 1 ELSE iescape
           /\ vztot' = IF up THEN vztot + p3.vz ELSE vztot
           /\ nlost' = IF cut THEN nlost + 1 ELSE nlost
           /\ notgone' = StillGoing(down, up, cut)
           /\ fired' = [lower |-> HitsLower(p0), crosses |-> Crosses(p1),
                        blocked |-> blocked, upper |-> HitsUpper(p2)]
           /\ fate' = fate \cup (IF down THEN {"down"} ELSE {})
                           \cup (IF up THEN {"escaped"} ELSE {})
                           \cup (IF cut THEN {"lost"} ELSE {})
    /\ max_count' = NewMax(NextCount(icount), max_count)
    /\ UNCHANGED <<params, r_bottom, len_bottom, len_top, length, pc, ipart, vz0tot, results, longest>>

\* The while loop ends and the for loop moves on.
EndParticle ==
    /\ pc = "while"
    /\ ~notgone
    /\ ipart' = ipart + 1
    /\ longest' = IF icount > longest THEN icount ELSE longest
    /\ pc' = "for"
    /\ UNCHANGED <<params, r_bottom, len_bottom, len_top, length, r0, z0, z, vx, vy, vz, icount, notgone, iescape,
                   max_count, nlost, vztot, vz0tot, results, fired, fate>>

\* (r_bottom^2 * iescape) / npart
ClausingFactor == Div(Mul(Rescale(Sq(r_bottom), S), iescape), params.npart, 1)

\* vz0tot / npart and vztot / iescape, on the D * S grid
Vz0Av == Div(vz0tot, params.npart, S)
VzAv == Div(vztot, iescape, S)

\* vz0av / vzav
DenCor == Div(Vz0Av, VzAv, S)

\* Calculate results and return.
Finish ==
    /\ pc = "for"
    /\ ipart = params.npart
    /\ results' = [clausing_factor |-> ClausingFactor, max_count |-> max_count,
                   nlost |-> nlost, den_cor |-> DenCor]
    /\ pc' = "done"
    /\ UNCHANGED <<params, r_bottom, len_bottom, len_top, length, ipart, r0, z0, z, vx, vy, vz, icount, notgone, iescape,
                   max_count, nlost, vztot, vz0tot, longest, fired, fate>>

Next == Launch \/ Iterate \/ EndParticle \/ Finish

Spec == Init /\ [][Next]_vars

\* The routine is sequential code: it keeps running until it returns.
FairSpec == Spec /\ WF_vars(Next)

\* ------------------------------------------------------------------ claims

\* Particles launched so far.
Started == ipart + (IF pc = "while" THEN 1 ELSE 0)

Returned == pc = "done"

\* The last iteration left the particle in the loop.
Continues == pc = "while" /\ notgone /\ icount >= 1

C2_LostIsNotEscaped ==
    /\ ~({"escaped", "lost"} \subseteq fate)
    /\ Returned => iescape + nlost <= params.npart

\* C3 as claimed: the iteration counter never exceeds the cutoff, and so
\* neither does max_count.
C3_AtMostCutoff ==
    /\ icount <= Cutoff
    /\ max_count <= Cutoff
    /\ results.max_count <= Cutoff

\* C3 as amended: the loop runs up to one iteration beyond the cutoff, the
\* one in which icount > cutoff is first true; icount, max_count and the
\* returned max_count never exceed cutoff + 1.
C3_AtMostCutoffPlusOne ==
    /\ icount <= Cutoff + 1
    /\ max_count <= Cutoff + 1
    /\ results.max_count <= Cutoff + 1

\* C3 witness: a particle in its iteration number cutoff + 1.
C3_OneBeyond == pc = "while" /\ icount = Cutoff + 1 /\ max_count = Cutoff + 1

\* C4: every run returns, whatever the geometry and the draws give.
C4_Terminates == <>Returned

\* C4 witness: a particle whose z is NaN, so that no comparison of the loop
\* holds of it, ended by the cutoff.
C4_NaNCutOff == pc = "while" /\ ~notgone /\ ~IsNum(z) /\ fate = {"lost"}

\* C5: between particles and at return max_count is the largest number of
\* iterations a completed particle executed; a run with npart >= 1 returns
\* that number, and it is at least 1.
C5_MaxCountIsLongest ==
    /\ pc # "while" => max_count = longest
    /\ (Returned /\ params.npart >= 1) =>
          results.max_count = longest /\ results.max_count >= 1

\* C5 witness: a returned run whose last particle was not the longest and
\* whose particles ended in different ways.
C5_EarlierParticleLongest ==
    /\ Returned
    /\ icount < results.max_count
    /\ iescape >= 1
    /\ iescape < params.npart

\* C6: a run with npart = 0 does not return a ClausingResults whose
\* clausing_factor and den_cor are divisions by zero.
C6_ZeroParticlesRejected ==
    ~(/\ Returned
      /\ params.npart = 0
      /\ ~IsNum(results.clausing_factor)
      /\ ~IsNum(results.den_cor))

\* C7: a run with npart >= 1 in which no particle escaped does not return a
\* ClausingResults whose den_cor is a division by the zero escape count.
C7_NoEscapeReported ==
    ~(/\ Returned
      /\ params.npart >= 1
      /\ iescape = 0
      /\ ~IsNum(results.den_cor))

\* C8: vztot changes only in the step that increments iescape, by the vz of
\* that iteration, which is positive; so vztot > 0 once a particle has
\* escaped, and a run with an escaped particle returns den_cor > 0.
C8_ExitVelocityPositive ==
    /\ [][/\ (vztot' # vztot \/ iescape' # iescape) =>
              /\ iescape' = iescape + 1
              /\ vztot' = vztot + vz'
              /\ vz' > 0
          /\ (pc = "for" /\ pc' = "while") => vz' > 0]_vars
    /\ [](iescape >= 1 => vztot > 0)
    /\ []((Returned /\ iescape >= 1) => Gt(results.den_cor, 0))

\* C8 witness: a returned run with an escaped particle.
C8_SomeEscaped == Returned /\ iescape >= 1 /\ Gt(results.den_cor, 0)

\* C9: after an iteration in which the lower wall test or the crossing test
\* changed the particle, the upper wall test has re-emitted it exactly when
\* the z those tests left was in [len_bottom, length]: if it re-emitted, the
\* emission height z0 is that z; if it did not, the pending z is that z.
C9_UpperTestedInSameIteration ==
    (pc = "while" /\ icount >= 1) =>
        /\ fired.upper => (Ge(z0, len_bottom) /\ Le(z0, length) /\ r0 = One)
        /\ ~fired.upper => ~(Ge(z, len_bottom) /\ Le(z, length))
        /\ fired.blocked => fired.crosses

\* C9 witness: one iteration with a re-emission from the lower wall and one
\* from the upper wall.
C9_TwoReemissions == pc = "while" /\ fired.lower /\ fired.upper

====
